---- MODULE Spec2Model ----
(***************************************************************************)
(* State-machine model of contracts/ChainEscapeLite.sol.                   *)
(*                                                                         *)
(* One action per external function of the contract.  A call that reverts  *)
(* leaves the contract storage untouched (EVM revert semantics) and only   *)
(* reports its revert reason in the transaction receipt `tx`.  The         *)
(* receipt is consumed by the action Mined before the next transaction is  *)
(* sent, so that `tx` always describes the transaction applied last.       *)
(*                                                                         *)
(* The accounts that send transactions and the argument values they use    *)
(* are the `world` of a behaviour, chosen when the contract is deployed    *)
(* and never changed: Spec deploys into RolesWorld, SpecScore into         *)
(* ScoreWorld, SpecGame into GameWorld and SpecPuzzle into PuzzleWorld.    *)
(* SpecSort starts from an ended game with an arbitrary roster and         *)
(* arbitrary player stats and only calls finalizeRanks.                    *)
(*                                                                         *)
(* Of the functions inherited from ERC721 the holder's transferFrom is     *)
(* modelled; approvals are not given, so only the holder of a token moves  *)
(* it.  _safeMint calls onERC721Received of a claimant that is a contract; *)
(* the callback accepts the token, rejects it, or calls claimNFT again.    *)
(* The functions inherited from Ownable (transferOwnership,                *)
(* renounceOwnership) are not called: the owner stays the deployer.        *)
(*                                                                         *)
(* uint256 arithmetic is checked (pragma ^0.8.17): an overflow reverts.    *)
(* All values of the model stay far below 2^256, so the revert-on-overflow *)
(* branch is never taken and plain naturals are used.                      *)
(***************************************************************************)
EXTENDS Integers, Naturals, Sequences, FiniteSets, TLC

\* ------------------------------------------------------------------
\* Bounds of the model
\* ------------------------------------------------------------------
\* at most MaxSubmissions accepted submitResult calls in a behaviour
MaxSubmissions == 3
\* SpecSort: rosters of up to MaxRoster players whose score, puzzleIndex and
\* lastSolveTime range over 0..MaxStat
MaxRoster == 3
MaxStat == 1

\* ------------------------------------------------------------------
\* Program constants
\* ------------------------------------------------------------------
\* uint256 penalty = 2;
Penalty == 2
\* uint256 bonus = timeRemaining / 60;
BonusDivisor == 60

\* ------------------------------------------------------------------
\* Accounts, keys and inputs
\* ------------------------------------------------------------------
Zero == "0x0"                    \* address(0), the default of an unset address
Owner == "owner"                 \* the deployer, owner() of the contract
Relay == "relay"
Alice == "alice"
Bob == "bob"
Carol == "carol"
JudgeA == "judgeA"               \* addresses of two signing keys
JudgeB == "judgeB"
Stray == "stray"                 \* what ecrecover yields for a foreign message
This == "this"                   \* address(this)
Elsewhere == "elsewhere"         \* another deployment of the contract

Accounts == {Zero, Owner, Relay, Alice, Bob, Carol}
PuzzleIds == {0, 1}

\* The worlds.  callers send the admin, finalize and claim transactions,
\* submitters send submitResult; players, puzzleIds, basePoints,
\* timeRemaining, durations, relays, keys, creators and grants are the
\* values the arguments are drawn from; a token holder among the callers
\* transfers a token of tokenIdArgs to an account of recipients; the
\* callers in contracts are contracts that implement onERC721Received, all
\* other accounts are externally owned.

\* roles: two relays, two judge keys, a creator; one player, which is a
\* contract, one puzzle
\* (the test suite sets puzzle 0 with basePoints 10 and signs timeRemaining 100)
RolesWorld ==
    [callers |-> {Owner, Relay, Alice, Bob},
     submitters |-> {Owner, Relay, Alice, Bob},
     players |-> {Alice},
     relays |-> {Relay, Bob},
     keys |-> {JudgeA, JudgeB},
     creators |-> {Bob},
     grants |-> {TRUE, FALSE},
     puzzleIds |-> {0},
     basePoints |-> {1, 10},
     timeRemaining |-> {100},
     durations |-> {1},
     recipients |-> {Bob},
     tokenIdArgs |-> {1},
     contracts |-> {Alice}]

\* scoring: two players, two puzzles, awards of 2 and 3 points
ScoreWorld ==
    [callers |-> {Owner, Relay, Alice},
     submitters |-> {Relay, Alice},
     players |-> {Alice, Bob},
     relays |-> {Relay},
     keys |-> {JudgeA},
     creators |-> {Bob},
     grants |-> {FALSE},
     puzzleIds |-> {0, 1},
     basePoints |-> {2},
     timeRemaining |-> {40, 100},
     durations |-> {1},
     recipients |-> {Bob},
     tokenIdArgs |-> {1},
     contracts |-> {}]

\* ranking and rewards: three players, two puzzles
GameWorld ==
    [callers |-> {Owner, Alice, Bob},
     submitters |-> {Relay},
     players |-> {Alice, Bob, Carol},
     relays |-> {Relay},
     keys |-> {JudgeA},
     creators |-> {Bob},
     grants |-> {FALSE},
     puzzleIds |-> {0, 1},
     basePoints |-> {1},
     timeRemaining |-> {100},
     durations |-> {1},
     recipients |-> {Bob},
     tokenIdArgs |-> {1},
     contracts |-> {}]

\* puzzle registry: two puzzles that the owner and a creator set and
\* overwrite with two different basePoints; one player
PuzzleWorld ==
    [callers |-> {Owner, Bob},
     submitters |-> {Relay},
     players |-> {Alice},
     relays |-> {Relay},
     keys |-> {JudgeA},
     creators |-> {Bob},
     grants |-> {TRUE},
     puzzleIds |-> {0, 1},
     basePoints |-> {1, 10},
     timeRemaining |-> {100},
     durations |-> {1},
     recipients |-> {Bob},
     tokenIdArgs |-> {1},
     contracts |-> {}]

\* finalizeRanks on its own: one caller
SortWorld ==
    [callers |-> {Alice},
     submitters |-> {Relay},
     players |-> {Alice},
     relays |-> {Relay},
     keys |-> {JudgeA},
     creators |-> {Bob},
     grants |-> {FALSE},
     puzzleIds |-> {0},
     basePoints |-> {1},
     timeRemaining |-> {100},
     durations |-> {1},
     recipients |-> {Bob},
     tokenIdArgs |-> {1},
     contracts |-> {}]

\* revert reasons
OK == "ok"
NotOwner == "Ownable: caller is not the owner"
NotCreator == "Not a puzzle creator nor owner"
NotActive == "Game is not active"
TimeUp == "Time is up"
NotAvs == "Caller is not AVS address"
BadSigLength == "ECDSA: invalid signature length"
BadSig == "Invalid AVS signature"
WrongIndex == "Wrong puzzle index"
PuzzleInactive == "Puzzle not active"
AlreadyActive == "Game is already active"
AlreadyEnded == "Game has already ended"
GameNotActive == "Game not active"
NotEnded == "Game not ended yet"
NoRank == "Rank not assigned yet. finalizeRanks first."
AlreadyClaimed == "Already claimed NFT"
PanicIndex == "Panic(0x32)"
InvalidToken == "ERC721: invalid token ID"
NotTokenOwner == "ERC721: caller is not token owner or approved"
WrongFrom == "ERC721: transfer from incorrect owner"
ToZero == "ERC721: transfer to the zero address"
NotReceiver == "ERC721: transfer to non ERC721Receiver implementer"
\* no nested call was made
NoCall == "no call"

\* what the receiver of a minted token does in onERC721Received
NoHook == "externally owned"     \* no code: _safeMint makes no call
Accepts == "accepts"             \* returns the selector
Rejects == "rejects"             \* returns another value, or reverts without a reason
Reenters == "reenters"           \* calls claimNFT again, catches its failure
                                 \* and returns the selector

VARIABLES
    avsAddress, avsSigner, puzzleCreators,
    gameState, gameStartTimestamp, gameDuration,
    puzzleCount, puzzles,
    allPlayers, playerStats,
    tokenIds, tokenOwner,
    finalRank,
    now,            \* block.timestamp
    submissions,    \* number of accepted submitResult calls so far
    tx,             \* receipt of the transaction applied last, or NoTx
    world           \* the accounts and argument values of this behaviour

roles == <<avsAddress, avsSigner, puzzleCreators>>
lifecycle == <<gameState, gameStartTimestamp, gameDuration>>
registry == <<puzzleCount, puzzles>>
players == <<allPlayers, playerStats>>
tokens == <<tokenIds, tokenOwner>>
storage == <<roles, lifecycle, registry, players, tokens, finalRank>>
vars == <<storage, now, submissions, tx, world>>

\* ------------------------------------------------------------------
\* Structs
\* ------------------------------------------------------------------
NoHash == "0x00"
SomeHash == "0xab"
NoPuzzle == [puzzleHash |-> NoHash, basePoints |-> 0, active |-> FALSE]
NoStats == [score |-> 0, puzzleIndex |-> 0, claimedNFT |-> FALSE,
            isActivePlayer |-> FALSE, lastSolveTime |-> 0]

\* ------------------------------------------------------------------
\* Signatures
\* ------------------------------------------------------------------
\* keccak256(abi.encodePacked(address(this), player, puzzleId, correct,
\* timeRemaining)): all fields have a fixed width, so the packed encoding
\* determines the fields; the digest is modelled by the tuple itself.
messageHash(self, player, puzzleId, correct, timeRemaining) ==
    <<self, player, puzzleId, correct, timeRemaining>>

\* what the test helper signSubmission produces with a wallet
Sign(key, hash) == [wellFormed |-> TRUE, signer |-> key, message |-> hash]
\* "0x1234": a byte string that is no 65-byte signature
Malformed == [wellFormed |-> FALSE, signer |-> Zero,
              message |-> messageHash(Zero, Zero, 0, FALSE, 0)]

\* ECDSA.recover(toEthSignedMessageHash(hash), signature): the signing key
\* when the signature was made over this very digest, otherwise an address
\* nobody holds.
\* faulty variant: the digest is not bound to the signature
recoverAnyDigest(hash, signature) ==
    signature.signer

recover(hash, signature) ==
    IF signature.message = hash THEN signature.signer ELSE Stray

\* signatures a relay may present with a call
SignatureChoices(player, puzzleId, correct, timeRemaining) ==
    {Sign(k, messageHash(This, player, puzzleId, correct, timeRemaining)) :
        k \in world.keys}
    \cup {Sign(JudgeA, messageHash(Elsewhere, player, puzzleId, correct, timeRemaining))}
    \cup {Malformed}

\* ------------------------------------------------------------------
\* Receipts
\* ------------------------------------------------------------------
\* hook: what the receiver callback of a claimNFT did;  inner: the result of
\* the claimNFT it issued, if it issued one
\* a: address argument (player, _creator, _avsAddress, _avsSigner, to)
\* n: puzzleId / tokenId;  b: correct / _isCreator
\* v: timeRemaining / _durationInSeconds / _basePoints
Receipt(op, caller, result, a, n, b, v, sig) ==
    [op |-> op, caller |-> caller, result |-> result,
     a |-> a, n |-> n, b |-> b, v |-> v, signature |-> sig,
     hook |-> NoHook, inner |-> NoCall]
NoTx == Receipt("none", Zero, OK, Zero, 0, FALSE, 0, Malformed)

\* the storage the constructor leaves behind
Deployed ==
    /\ avsAddress = Zero
    /\ avsSigner = Zero
    /\ puzzleCreators = {}
    /\ gameState = "NOT_STARTED"
    /\ gameStartTimestamp = 0
    /\ gameDuration = 0
    /\ puzzleCount = 0
    /\ puzzles = [i \in PuzzleIds |-> NoPuzzle]
    /\ allPlayers = <<>>
    /\ playerStats = [p \in Accounts |-> NoStats]
    /\ tokenIds = 0
    /\ tokenOwner = <<>>
    /\ finalRank = [p \in Accounts |-> 0]
    /\ now = 1
    /\ submissions = 0
    /\ tx = NoTx

Init ==
    /\ world = RolesWorld
    /\ Deployed

InitScore ==
    /\ world = ScoreWorld
    /\ Deployed

InitGame ==
    /\ world = GameWorld
    /\ Deployed

InitPuzzle ==
    /\ world = PuzzleWorld
    /\ Deployed

\* the accounts a roster is filled from, in the order they are appended
RosterOrder == <<Alice, Bob, Carol, Owner, Relay>>

\* an ended game with any roster of 1..MaxRoster players and any stats
InitSort ==
    /\ world = SortWorld
    /\ avsAddress = Relay
    /\ avsSigner = JudgeA
    /\ puzzleCreators = {}
    /\ gameState = "ENDED"
    /\ gameStartTimestamp = 1
    /\ gameDuration = 1
    /\ puzzleCount = 0
    /\ puzzles = [i \in PuzzleIds |-> NoPuzzle]
    /\ \E n \in 1..MaxRoster :
          /\ allPlayers = SubSeq(RosterOrder, 1, n)
          /\ \E st \in [1..n -> [score : 0..MaxStat, puzzleIndex : 0..MaxStat,
                                  lastSolveTime : 0..MaxStat]] :
                playerStats =
                    [p \in Accounts |->
                        IF \E i \in 1..n : RosterOrder[i] = p
                        THEN LET i == CHOOSE i \in 1..n : RosterOrder[i] = p IN
                             [score |-> st[i].score,
                              puzzleIndex |-> st[i].puzzleIndex,
                              claimedNFT |-> FALSE,
                              isActivePlayer |-> TRUE,
                              lastSolveTime |-> st[i].lastSolveTime]
                        ELSE NoStats]
    /\ tokenIds = 0
    /\ tokenOwner = <<>>
    /\ finalRank = [p \in Accounts |-> 0]
    /\ now = 2
    /\ submissions = 0
    /\ tx = NoTx

\* ------------------------------------------------------------------
\* Modifiers
\* ------------------------------------------------------------------
deadline == gameStartTimestamp + gameDuration

onlyOwner(caller) == IF caller # Owner THEN NotOwner ELSE OK

\* faulty variant: the window excludes now = start + duration
onlyWhenActiveStrict ==
    IF gameState # "ACTIVE" THEN NotActive
    ELSE IF ~(now < deadline) THEN TimeUp
    ELSE OK

\* faulty variant: the deadline is not checked
onlyWhenActiveNoDeadline ==
    IF gameState # "ACTIVE" THEN NotActive
    ELSE OK

onlyWhenActive ==
    IF gameState # "ACTIVE" THEN NotActive
    ELSE IF ~(now <= deadline) THEN TimeUp
    ELSE OK

\* faulty variant: the owner needs the creator role too
onlyPuzzleCreatorRoleOnly(caller) ==
    IF caller \in puzzleCreators THEN OK ELSE NotCreator

\* faulty variant: the modifier reports the owner-only error
onlyPuzzleCreatorOwnerMessage(caller) ==
    IF caller \in puzzleCreators \/ caller = Owner THEN OK ELSE NotOwner

onlyPuzzleCreator(caller) ==
    IF caller \in puzzleCreators \/ caller = Owner THEN OK ELSE NotCreator

\* ------------------------------------------------------------------
\* Admin functions
\* ------------------------------------------------------------------
setPuzzleCreator(caller, creator, isCreator) ==
    LET err == onlyOwner(caller) IN
    /\ tx' = Receipt("setPuzzleCreator", caller, err, creator, 0, isCreator, 0, Malformed)
    /\ IF err = OK
       THEN /\ puzzleCreators' = IF isCreator THEN puzzleCreators \cup {creator}
                                              ELSE puzzleCreators \ {creator}
            /\ UNCHANGED <<avsAddress, avsSigner>>
       ELSE UNCHANGED roles
    /\ UNCHANGED <<lifecycle, registry, players, tokens, finalRank, now, submissions, world>>

setAvsAddress(caller, addr) ==
    LET err == onlyOwner(caller) IN
    /\ tx' = Receipt("setAvsAddress", caller, err, addr, 0, FALSE, 0, Malformed)
    /\ IF err = OK
       THEN /\ avsAddress' = addr
            /\ UNCHANGED <<avsSigner, puzzleCreators>>
       ELSE UNCHANGED roles
    /\ UNCHANGED <<lifecycle, registry, players, tokens, finalRank, now, submissions, world>>

\* faulty variant: a judge key that has been set is not replaced
setAvsSignerOnce(caller, signer) ==
    LET err == onlyOwner(caller) IN
    /\ tx' = Receipt("setAvsSigner", caller, err, signer, 0, FALSE, 0, Malformed)
    /\ IF err = OK
       THEN /\ avsSigner' = IF avsSigner = Zero THEN signer ELSE avsSigner
            /\ UNCHANGED <<avsAddress, puzzleCreators>>
       ELSE UNCHANGED roles
    /\ UNCHANGED <<lifecycle, registry, players, tokens, finalRank, now, submissions, world>>

setAvsSigner(caller, signer) ==
    LET err == onlyOwner(caller) IN
    /\ tx' = Receipt("setAvsSigner", caller, err, signer, 0, FALSE, 0, Malformed)
    /\ IF err = OK
       THEN /\ avsSigner' = signer
            /\ UNCHANGED <<avsAddress, puzzleCreators>>
       ELSE UNCHANGED roles
    /\ UNCHANGED <<lifecycle, registry, players, tokens, finalRank, now, submissions, world>>

\* faulty variant: an ENDED game can be started again
startGameErrorRestart(caller) ==
    IF onlyOwner(caller) # OK THEN onlyOwner(caller)
    ELSE IF gameState = "ACTIVE" THEN AlreadyActive
    ELSE OK

startGameError(caller) ==
    IF onlyOwner(caller) # OK THEN onlyOwner(caller)
    ELSE IF gameState = "ACTIVE" THEN AlreadyActive
    ELSE IF gameState = "ENDED" THEN AlreadyEnded
    ELSE OK

startGame(caller, durationInSeconds) ==
    LET err == startGameError(caller) IN
    /\ tx' = Receipt("startGame", caller, err, Zero, 0, FALSE, durationInSeconds, Malformed)
    /\ IF err = OK
       THEN /\ gameDuration' = durationInSeconds
            /\ gameStartTimestamp' = now
            /\ gameState' = "ACTIVE"
       ELSE UNCHANGED lifecycle
    /\ UNCHANGED <<roles, registry, players, tokens, finalRank, now, submissions, world>>

\* faulty variant: endGame is not restricted to the owner
endGameErrorAnyone(caller) ==
    IF gameState # "ACTIVE" THEN GameNotActive
    ELSE OK

endGameError(caller) ==
    IF onlyOwner(caller) # OK THEN onlyOwner(caller)
    ELSE IF gameState # "ACTIVE" THEN GameNotActive
    ELSE OK

endGame(caller) ==
    LET err == endGameError(caller) IN
    /\ tx' = Receipt("endGame", caller, err, Zero, 0, FALSE, 0, Malformed)
    /\ IF err = OK
       THEN /\ gameState' = "ENDED"
            /\ UNCHANGED <<gameStartTimestamp, gameDuration>>
       ELSE UNCHANGED lifecycle
    /\ UNCHANGED <<roles, registry, players, tokens, finalRank, now, submissions, world>>

\* ------------------------------------------------------------------
\* Puzzle setup
\* ------------------------------------------------------------------
\* faulty variant: puzzleCount follows the id set last
setPuzzleHashCountFollows(caller, puzzleId, puzzleHash, basePoints) ==
    LET err == onlyPuzzleCreator(caller) IN
    /\ tx' = Receipt("setPuzzleHash", caller, err, Zero, puzzleId, FALSE, basePoints, Malformed)
    /\ IF err = OK
       THEN /\ puzzles' = [puzzles EXCEPT ![puzzleId] =
                              [puzzleHash |-> puzzleHash, basePoints |-> basePoints,
                               active |-> TRUE]]
            /\ puzzleCount' = puzzleId + 1
       ELSE UNCHANGED registry
    /\ UNCHANGED <<roles, lifecycle, players, tokens, finalRank, now, submissions, world>>

setPuzzleHash(caller, puzzleId, puzzleHash, basePoints) ==
    LET err == onlyPuzzleCreator(caller) IN
    /\ tx' = Receipt("setPuzzleHash", caller, err, Zero, puzzleId, FALSE, basePoints, Malformed)
    /\ IF err = OK
       THEN /\ puzzles' = [puzzles EXCEPT ![puzzleId] =
                              [puzzleHash |-> puzzleHash, basePoints |-> basePoints,
                               active |-> TRUE]]
            /\ puzzleCount' = IF puzzleId >= puzzleCount THEN puzzleId + 1
                                                         ELSE puzzleCount
       ELSE UNCHANGED registry
    /\ UNCHANGED <<roles, lifecycle, players, tokens, finalRank, now, submissions, world>>

\* ------------------------------------------------------------------
\* Off-chain verification & submit
\* ------------------------------------------------------------------
\* faulty variant: the bonus is rounded up
pointsAwardedRoundedUp(puzzleId, timeRemaining) ==
    puzzles[puzzleId].basePoints + ((timeRemaining + BonusDivisor - 1) \div BonusDivisor)

pointsAwarded(puzzleId, timeRemaining) ==
    puzzles[puzzleId].basePoints + (timeRemaining \div BonusDivisor)

\* faulty variant: a score below the penalty is left as it is
penalisedUnclamped(score) ==
    IF score >= Penalty THEN score - Penalty ELSE score

penalised(score) ==
    IF score >= Penalty THEN score - Penalty ELSE 0

\* faulty variant: the signature is verified before the caller is checked
submitResultErrorSignatureFirst(caller, player, puzzleId, correct, timeRemaining, signature) ==
    IF onlyWhenActive # OK THEN onlyWhenActive
    ELSE IF ~signature.wellFormed THEN BadSigLength
    ELSE IF recover(messageHash(This, player, puzzleId, correct, timeRemaining),
                    signature) # avsSigner THEN BadSig
    ELSE IF caller # avsAddress THEN NotAvs
    ELSE IF puzzleId # playerStats[player].puzzleIndex THEN WrongIndex
    ELSE IF ~puzzles[puzzleId].active THEN PuzzleInactive
    ELSE OK

\* faulty variant: the puzzle is not required to be active
submitResultErrorAnyPuzzle(caller, player, puzzleId, correct, timeRemaining, signature) ==
    IF onlyWhenActive # OK THEN onlyWhenActive
    ELSE IF caller # avsAddress THEN NotAvs
    ELSE IF ~signature.wellFormed THEN BadSigLength
    ELSE IF recover(messageHash(This, player, puzzleId, correct, timeRemaining),
                    signature) # avsSigner THEN BadSig
    ELSE IF puzzleId # playerStats[player].puzzleIndex THEN WrongIndex
    ELSE OK

\* the require statements of submitResult, in the order of the code
submitResultError(caller, player, puzzleId, correct, timeRemaining, signature) ==
    IF onlyWhenActive # OK THEN onlyWhenActive
    ELSE IF caller # avsAddress THEN NotAvs
    ELSE IF ~signature.wellFormed THEN BadSigLength
    ELSE IF recover(messageHash(This, player, puzzleId, correct, timeRemaining),
                    signature) # avsSigner THEN BadSig
    ELSE IF puzzleId # playerStats[player].puzzleIndex THEN WrongIndex
    ELSE IF ~puzzles[puzzleId].active THEN PuzzleInactive
    ELSE OK

\* faulty variant: the push made before a failing require is kept
rosterAfterKept(player, err) ==
    IF err \in {OK, WrongIndex, PuzzleInactive} /\ ~playerStats[player].isActivePlayer
    THEN Append(allPlayers, player)
    ELSE allPlayers

\* faulty variant: every accepted call appends the player
rosterAfterAlways(player, err) ==
    IF err = OK
    THEN Append(allPlayers, player)
    ELSE allPlayers

\* "Mark them active if first time": the roster a call leaves behind
rosterAfter(player, err) ==
    IF err = OK /\ ~playerStats[player].isActivePlayer
    THEN Append(allPlayers, player)
    ELSE allPlayers

\* faulty variant: an incorrect attestation moves the player on as well
statsAfterAlwaysAdvances(stats, puzzleId, correct, timeRemaining) ==
    IF correct
    THEN [stats EXCEPT !.isActivePlayer = TRUE,
                       !.score = @ + pointsAwarded(puzzleId, timeRemaining),
                       !.puzzleIndex = @ + 1,
                       !.lastSolveTime = now]
    ELSE [stats EXCEPT !.isActivePlayer = TRUE,
                       !.score = penalised(@),
                       !.puzzleIndex = @ + 1]

\* the PlayerStats an accepted call leaves behind
statsAfter(stats, puzzleId, correct, timeRemaining) ==
    IF correct
    THEN [stats EXCEPT !.isActivePlayer = TRUE,
                       !.score = @ + pointsAwarded(puzzleId, timeRemaining),
                       !.puzzleIndex = @ + 1,
                       !.lastSolveTime = now]
    ELSE [stats EXCEPT !.isActivePlayer = TRUE,
                       !.score = penalised(@)]

submitResult(caller, player, puzzleId, correct, timeRemaining, signature) ==
    LET err == submitResultError(caller, player, puzzleId, correct,
                                 timeRemaining, signature) IN
    /\ err = OK => submissions < MaxSubmissions
    /\ tx' = Receipt("submitResult", caller, err, player, puzzleId, correct,
                     timeRemaining, signature)
    /\ allPlayers' = rosterAfter(player, err)
    /\ IF err = OK
       THEN /\ playerStats' = [playerStats EXCEPT ![player] =
                                  statsAfter(@, puzzleId, correct, timeRemaining)]
            /\ submissions' = submissions + 1
       ELSE UNCHANGED <<playerStats, submissions>>
    /\ UNCHANGED <<roles, lifecycle, registry, tokens, finalRank, now, world>>

\* ------------------------------------------------------------------
\* Tie-breaking & final ranks
\* ------------------------------------------------------------------
\* faulty variant: lastSolveTime does not break a tie
isBetterNoTime(a, b) ==
    IF playerStats[a].score > playerStats[b].score THEN TRUE
    ELSE IF playerStats[a].score < playerStats[b].score THEN FALSE
    ELSE IF playerStats[a].puzzleIndex > playerStats[b].puzzleIndex THEN TRUE
    ELSE FALSE

isBetter(a, b) ==
    IF playerStats[a].score > playerStats[b].score THEN TRUE
    ELSE IF playerStats[a].score < playerStats[b].score THEN FALSE
    ELSE IF playerStats[a].puzzleIndex > playerStats[b].puzzleIndex THEN TRUE
    ELSE IF playerStats[a].puzzleIndex < playerStats[b].puzzleIndex THEN FALSE
    ELSE IF playerStats[a].lastSolveTime < playerStats[b].lastSolveTime THEN TRUE
    ELSE IF playerStats[a].lastSolveTime > playerStats[b].lastSolveTime THEN FALSE
    ELSE FALSE

areTied(a, b) ==
    /\ playerStats[a].score = playerStats[b].score
    /\ playerStats[a].puzzleIndex = playerStats[b].puzzleIndex
    /\ playerStats[a].lastSolveTime = playerStats[b].lastSolveTime

\* sequences are 1-based here: position i of the code is position i + 1
swap(s, i, j) == [s EXCEPT ![i] = s[j], ![j] = s[i]]

\* faulty variant: the inner loop stops one position short
RECURSIVE innerLoopStopsShort(_, _, _)
innerLoopStopsShort(s, i, j) ==
    IF j >= Len(s) THEN s
    ELSE innerLoopStopsShort(IF isBetter(s[j], s[i]) THEN swap(s, i, j) ELSE s, i, j + 1)

\* for (j = i + 1; j < length; j++) if (isBetter(s[j], s[i])) swap
RECURSIVE innerLoop(_, _, _)
innerLoop(s, i, j) ==
    IF j > Len(s) THEN s
    ELSE innerLoop(IF isBetter(s[j], s[i]) THEN swap(s, i, j) ELSE s, i, j + 1)

\* for (i = 0; i < length; i++) ...
RECURSIVE outerLoop(_, _)
outerLoop(s, i) ==
    IF i > Len(s) THEN s
    ELSE outerLoop(innerLoop(s, i, i + 1), i + 1)

sortedPlayers == outerLoop(allPlayers, 1)

\* faulty variant: every position gets its own rank, ties included
RECURSIVE rankLoopPositional(_, _, _)
rankLoopPositional(rank, s, k) ==
    IF k > Len(s) THEN rank
    ELSE rankLoopPositional([rank EXCEPT ![s[k]] = k], s, k + 1)

\* faulty variant: a player that is not tied gets the next rank number
RECURSIVE rankLoopDense(_, _, _)
rankLoopDense(rank, s, k) ==
    IF k > Len(s) THEN rank
    ELSE rankLoopDense([rank EXCEPT ![s[k]] =
                           IF areTied(s[k], s[k - 1]) THEN rank[s[k - 1]]
                                                      ELSE rank[s[k - 1]] + 1],
                       s, k + 1)

\* for (k = 1; k < length; k++) ...: position k of the code is k + 1 here,
\* and the rank "k + 1" of the code is the 1-based position
RECURSIVE rankLoop(_, _, _)
rankLoop(rank, s, k) ==
    IF k > Len(s) THEN rank
    ELSE rankLoop([rank EXCEPT ![s[k]] =
                      IF areTied(s[k], s[k - 1]) THEN rank[s[k - 1]] ELSE k],
                  s, k + 1)

assignRanks(rank, s) ==
    rankLoop([rank EXCEPT ![s[1]] = 1], s, 2)

\* faulty variant: the game counts as over at now = start + duration already
gameOverInclusive ==
    gameState = "ENDED" \/ now >= deadline

gameOver ==
    gameState = "ENDED" \/ now > deadline

\* faulty variant: the lifecycle require is missing
finalizeRanksErrorUngated ==
    IF Len(allPlayers) = 0 THEN PanicIndex
    ELSE OK

\* sortedPlayers[0] of an empty memory array is an out-of-bounds access
finalizeRanksError ==
    IF ~gameOver THEN NotEnded
    ELSE IF Len(allPlayers) = 0 THEN PanicIndex
    ELSE OK

finalizeRanks(caller) ==
    LET err == finalizeRanksError IN
    /\ tx' = Receipt("finalizeRanks", caller, err, Zero, 0, FALSE, 0, Malformed)
    /\ finalRank' = IF err = OK THEN assignRanks(finalRank, sortedPlayers)
                                ELSE finalRank
    /\ UNCHANGED <<roles, lifecycle, registry, players, tokens, now, submissions, world>>

\* ------------------------------------------------------------------
\* NFT claim
\* ------------------------------------------------------------------
\* faulty variant: the claimedNFT flag is not checked
claimNFTErrorNoClaimCheck(caller) ==
    IF ~gameOver THEN NotEnded
    ELSE IF ~(finalRank[caller] > 0) THEN NoRank
    ELSE OK

\* faulty variant: the rank is not checked
claimNFTErrorNoRankCheck(caller) ==
    IF ~gameOver THEN NotEnded
    ELSE IF playerStats[caller].claimedNFT THEN AlreadyClaimed
    ELSE OK

\* faulty variant: the rank check admits rank 0
claimNFTErrorRankZero(caller) ==
    IF ~gameOver THEN NotEnded
    ELSE IF ~(finalRank[caller] >= 0) THEN NoRank
    ELSE IF playerStats[caller].claimedNFT THEN AlreadyClaimed
    ELSE OK

claimNFTError(caller) ==
    IF ~gameOver THEN NotEnded
    ELSE IF ~(finalRank[caller] > 0) THEN NoRank
    ELSE IF playerStats[caller].claimedNFT THEN AlreadyClaimed
    ELSE OK

\* onERC721Received of the claimant, as far as the claimant decides it
Hooks(caller) ==
    IF caller \in world.contracts THEN {Accepts, Rejects, Reenters} ELSE {NoHook}

\* faulty variant: the flag is set after the mint
statsAtCallbackFlagLate(caller) ==
    playerStats

\* the player stats when _safeMint hands control to the receiver:
\* stats.claimedNFT = true precedes the mint
statsAtCallback(caller) ==
    [playerStats EXCEPT ![caller].claimedNFT = TRUE]

\* the require statements of a claimNFT issued from inside the callback
nestedClaimNFTError(caller) ==
    IF ~gameOver THEN NotEnded
    ELSE IF ~(finalRank[caller] > 0) THEN NoRank
    ELSE IF statsAtCallback(caller)[caller].claimedNFT THEN AlreadyClaimed
    ELSE OK

\* the result of the nested claimNFT, if the callback issues one
innerClaim(caller, hook) ==
    IF claimNFTError(caller) = OK /\ hook = Reenters
    THEN nestedClaimNFTError(caller) ELSE NoCall

\* _safeMint reverts the whole call when the receiver rejects the token
claimNFTResult(caller, hook) ==
    IF claimNFTError(caller) # OK THEN claimNFTError(caller)
    ELSE IF hook = Rejects THEN NotReceiver
    ELSE OK

\* the tokens a successful call mints: its own and, had the nested call
\* passed its requires, that call's
mintedTo(caller, hook) ==
    IF innerClaim(caller, hook) = OK THEN <<caller, caller>> ELSE <<caller>>

\* faulty variant: the claimedNFT flag is not set
claimNFTUnflagged(caller, hook) ==
    LET err == claimNFTResult(caller, hook) IN
    /\ tx' = [Receipt("claimNFT", caller, err, Zero, 0, FALSE, 0, Malformed)
                 EXCEPT !.hook = hook, !.inner = innerClaim(caller, hook)]
    /\ IF err = OK
       THEN /\ tokenIds' = tokenIds + Len(mintedTo(caller, hook))
            /\ tokenOwner' = tokenOwner \o mintedTo(caller, hook)
       ELSE UNCHANGED tokens
    /\ UNCHANGED <<roles, lifecycle, registry, players, finalRank, now, submissions, world>>

claimNFT(caller, hook) ==
    LET err == claimNFTResult(caller, hook) IN
    /\ tx' = [Receipt("claimNFT", caller, err, Zero, 0, FALSE, 0, Malformed)
                 EXCEPT !.hook = hook, !.inner = innerClaim(caller, hook)]
    /\ IF err = OK
       THEN /\ playerStats' = [playerStats EXCEPT ![caller].claimedNFT = TRUE]
            /\ tokenIds' = tokenIds + Len(mintedTo(caller, hook))
            /\ tokenOwner' = tokenOwner \o mintedTo(caller, hook)
       ELSE UNCHANGED <<playerStats, tokens>>
    /\ UNCHANGED <<roles, lifecycle, registry, allPlayers, finalRank, now, submissions, world>>

\* ERC721.transferFrom, inherited: no approvals are given, so the caller
\* passes _isApprovedOrOwner as the owner of the token only
transferFromError(caller, from, to, tokenId) ==
    IF tokenId \notin 1..Len(tokenOwner) THEN InvalidToken
    ELSE IF caller # tokenOwner[tokenId] THEN NotTokenOwner
    ELSE IF tokenOwner[tokenId] # from THEN WrongFrom
    ELSE IF to = Zero THEN ToZero
    ELSE OK

transferFrom(caller, from, to, tokenId) ==
    LET err == transferFromError(caller, from, to, tokenId) IN
    /\ tx' = Receipt("transferFrom", caller, err, to, tokenId, FALSE, 0, Malformed)
    /\ IF err = OK
       THEN /\ tokenOwner' = [tokenOwner EXCEPT ![tokenId] = to]
            /\ UNCHANGED tokenIds
       ELSE UNCHANGED tokens
    /\ UNCHANGED <<roles, lifecycle, registry, players, finalRank, now, submissions, world>>

\* ------------------------------------------------------------------
\* Environment
\* ------------------------------------------------------------------
\* A later block: block.timestamp grows.  The contract reads the clock only
\* relative to the deadline of a running game: before startGame the deadline
\* is 0 and has passed at any time, once it has passed it stays passed, and
\* an ENDED game does not look at the clock.  So the clock of the model
\* advances while the game is ACTIVE, until the deadline has passed.
Tick ==
    /\ tx = NoTx
    /\ gameState = "ACTIVE"
    /\ now <= deadline
    /\ now' = now + 1
    /\ UNCHANGED <<storage, submissions, tx, world>>

\* the receipt has been read; the next transaction can be sent
Mined ==
    /\ tx # NoTx
    /\ tx' = NoTx
    /\ UNCHANGED <<storage, now, submissions, world>>

SetPuzzleCreator ==
    /\ tx = NoTx
    /\ \E c \in world.callers, a \in world.creators, b \in world.grants : setPuzzleCreator(c, a, b)

SetAvsAddress ==
    /\ tx = NoTx
    /\ \E c \in world.callers, a \in world.relays : setAvsAddress(c, a)

SetAvsSigner ==
    /\ tx = NoTx
    /\ \E c \in world.callers, k \in world.keys : setAvsSigner(c, k)

StartGame ==
    /\ tx = NoTx
    /\ \E c \in world.callers, d \in world.durations : startGame(c, d)

EndGame ==
    /\ tx = NoTx
    /\ \E c \in world.callers : endGame(c)

SetPuzzleHash ==
    /\ tx = NoTx
    /\ \E c \in world.callers, i \in world.puzzleIds, bp \in world.basePoints :
          setPuzzleHash(c, i, SomeHash, bp)

SubmitResult ==
    /\ tx = NoTx
    /\ \E c \in world.submitters, p \in world.players, i \in world.puzzleIds,
          ok \in BOOLEAN, tr \in world.timeRemaining :
          \E sig \in SignatureChoices(p, i, ok, tr) :
             submitResult(c, p, i, ok, tr, sig)

FinalizeRanks ==
    /\ tx = NoTx
    /\ \E c \in world.callers : finalizeRanks(c)

ClaimNFT ==
    /\ tx = NoTx
    /\ \E c \in world.callers : \E h \in Hooks(c) : claimNFT(c, h)

\* a holder hands a token on
TransferFrom ==
    /\ tx = NoTx
    /\ \E c \in world.callers, to \in world.recipients, id \in world.tokenIdArgs :
          transferFrom(c, c, to, id)

Next ==
    \/ SetPuzzleCreator
    \/ SetAvsAddress
    \/ SetAvsSigner
    \/ StartGame
    \/ EndGame
    \/ SetPuzzleHash
    \/ SubmitResult
    \/ FinalizeRanks
    \/ ClaimNFT
    \/ TransferFrom
    \/ Tick
    \/ Mined

Spec == Init /\ [][Next]_vars

SpecScore == InitScore /\ [][Next]_vars

SpecGame == InitGame /\ [][Next]_vars

SpecPuzzle == InitPuzzle /\ [][Next]_vars

NextSort ==
    \/ FinalizeRanks
    \/ Mined

SpecSort == InitSort /\ [][NextSort]_vars

\* ------------------------------------------------------------------
\* Properties
\* ------------------------------------------------------------------
Submitted(t) == t.op = "submitResult"
Accepted(t) == Submitted(t) /\ t.result = OK
inWindow == gameState = "ACTIVE" /\ now <= gameStartTimestamp + gameDuration
\* the signature of t is the judge key's over {this contract, player,
\* puzzleId, correct, timeRemaining} of t
JudgeSigned(t) ==
    /\ t.signature.wellFormed
    /\ t.signature.signer = avsSigner
    /\ t.signature.message = <<This, t.a, t.n, t.b, t.v>>
InRoster(p) == \E i \in 1..Len(allPlayers) : allPlayers[i] = p

\* C1: an accepted submitResult with correct = true was sent by the relay
\* inside the window with the judge's signature for the player's current,
\* active puzzle; it adds basePoints + floor(timeRemaining / 60) to the
\* player's score, adds 1 to puzzleIndex, sets lastSolveTime to the time of
\* the call and changes no other player's stats.
C1_CorrectScores ==
    [][(Accepted(tx') /\ tx'.b) =>
          LET p == tx'.a IN
          /\ inWindow
          /\ tx'.caller = avsAddress
          /\ JudgeSigned(tx')
          /\ tx'.n = playerStats[p].puzzleIndex
          /\ puzzles[tx'.n].active
          /\ playerStats'[p].score =
                playerStats[p].score + puzzles[tx'.n].basePoints + (tx'.v \div 60)
          /\ playerStats'[p].puzzleIndex = playerStats[p].puzzleIndex + 1
          /\ playerStats'[p].lastSolveTime = now
          /\ \A q \in Accounts \ {p} : playerStats'[q] = playerStats[q]]_vars

\* a correct attestation with timeRemaining 100 (bonus 1) was applied to a
\* player's first puzzle while another player is on the roster
C1_Witness ==
    /\ Accepted(tx) /\ tx.b /\ tx.v = 100
    /\ playerStats[tx.a].score = 3
    /\ playerStats[tx.a].puzzleIndex = 1
    /\ playerStats[tx.a].lastSolveTime = now
    /\ \E q \in Accounts \ {tx.a} : InRoster(q)

\* C2: an accepted submitResult with correct = false sets the player's score
\* to max(0, score - 2) and leaves puzzleIndex and lastSolveTime as they were.
C2_PenaltyClamps ==
    [][(Accepted(tx') /\ ~tx'.b) =>
          LET p == tx'.a
              d == playerStats[p].score - 2 IN
          /\ playerStats'[p].score = IF d > 0 THEN d ELSE 0
          /\ playerStats'[p].puzzleIndex = playerStats[p].puzzleIndex
          /\ playerStats'[p].lastSolveTime = playerStats[p].lastSolveTime]_vars

\* the third accepted attestation of the only player: a solve worth 2 or 3
\* points and two penalties, the second of which met a score of 0 or 1
C2_Witness ==
    /\ Accepted(tx) /\ ~tx.b
    /\ submissions = 3
    /\ allPlayers = <<tx.a>>
    /\ playerStats[tx.a].puzzleIndex = 1
    /\ playerStats[tx.a].score = 0

\* C3: an attestation that has been accepted is rejected when it is
\* resubmitted, here in the state its acceptance leaves behind.
C3_NoReplay ==
    Accepted(tx) =>
        submitResultError(tx.caller, tx.a, tx.n, tx.b, tx.v, tx.signature) # OK

\* C4: a submitResult whose signature is not the configured judge key's over
\* the fields of the call is rejected, whoever sends it, and changes nothing.
C4_ForeignSignatureRejected ==
    [][(Submitted(tx') /\ ~JudgeSigned(tx')) =>
          /\ tx'.result # OK
          /\ UNCHANGED storage]_vars

\* the configured relay presented a well-formed signature of another key
\* inside the window
C4_Witness ==
    /\ Submitted(tx) /\ inWindow
    /\ tx.caller = avsAddress
    /\ tx.signature.wellFormed
    /\ tx.signature.signer # avsSigner
    /\ tx.signature.message = <<This, tx.a, tx.n, tx.b, tx.v>>
    /\ tx.result = BadSig

\* C5: inside the window a submitResult from any caller but the configured
\* relay fails with "Caller is not AVS address", whatever the signature, and
\* changes nothing.
C5_OnlyRelay ==
    [][(Submitted(tx') /\ inWindow /\ tx'.caller # avsAddress) =>
          /\ tx'.result = NotAvs
          /\ UNCHANGED storage]_vars

\* a caller that is not the relay presented the judge's signature for the
\* player's current, active puzzle
C5_Witness ==
    /\ Submitted(tx) /\ inWindow
    /\ tx.caller # avsAddress
    /\ JudgeSigned(tx)
    /\ tx.n = playerStats[tx.a].puzzleIndex
    /\ puzzles[tx.n].active
    /\ tx.result = NotAvs

\* C6: a submitResult for a puzzleId other than the player's puzzleIndex, or
\* for a puzzle that is not active, is rejected and changes nothing.
C6_WrongPuzzleRejected ==
    [][(Submitted(tx') /\ (\/ tx'.n # playerStats[tx'.a].puzzleIndex
                           \/ ~puzzles[tx'.n].active)) =>
          /\ tx'.result # OK
          /\ UNCHANGED storage]_vars

\* the first attestation ever made for a player skipped ahead and reached the
\* puzzle-index check: the player is neither active nor on the roster
C6_Witness ==
    /\ Submitted(tx) /\ tx.result = WrongIndex
    /\ tx.n = 1
    /\ playerStats[tx.a] = NoStats
    /\ ~InRoster(tx.a)

\* C7: gameState changes only NOT_STARTED -> ACTIVE, by an accepted
\* startGame, and ACTIVE -> ENDED, by an accepted endGame; the owner's
\* startGame fails with "Game is already active" from ACTIVE and with "Game
\* has already ended" from ENDED, and a failed startGame leaves the start
\* time and the duration as they were.
C7_LinearLifecycle ==
    [][/\ gameState' # gameState =>
             \/ /\ gameState = "NOT_STARTED" /\ gameState' = "ACTIVE"
                /\ tx'.op = "startGame" /\ tx'.result = OK
             \/ /\ gameState = "ACTIVE" /\ gameState' = "ENDED"
                /\ tx'.op = "endGame" /\ tx'.result = OK
       /\ tx'.op = "startGame" =>
             /\ tx'.result = OK => gameState = "NOT_STARTED"
             /\ (tx'.caller = Owner /\ gameState = "ACTIVE") => tx'.result = AlreadyActive
             /\ (tx'.caller = Owner /\ gameState = "ENDED") => tx'.result = AlreadyEnded
             /\ tx'.result # OK => UNCHANGED lifecycle
       /\ (tx'.op = "endGame" /\ tx'.result = OK) => gameState = "ACTIVE"]_vars

\* the owner tried to start the game again after it had ended
C7_Witness ==
    /\ tx.op = "startGame" /\ tx.caller = Owner
    /\ gameState = "ENDED"
    /\ tx.result = AlreadyEnded

\* C8: submitResult fails with "Game is not active" unless the game is
\* ACTIVE, with "Time is up" when it is ACTIVE and now > start + duration,
\* and with neither when it is ACTIVE and now <= start + duration.
\* (submitResult changes neither the lifecycle nor the clock, so the state
\* after the call shows the state the call was made in.)
C8_SubmitWindow ==
    Submitted(tx) =>
        /\ gameState # "ACTIVE" => tx.result = NotActive
        /\ (gameState = "ACTIVE" /\ now > gameStartTimestamp + gameDuration) =>
              tx.result = TimeUp
        /\ (gameState = "ACTIVE" /\ now <= gameStartTimestamp + gameDuration) =>
              tx.result \notin {NotActive, TimeUp}

\* an attestation was accepted at exactly now = start + duration
C8_Witness ==
    /\ Accepted(tx)
    /\ gameDuration > 0
    /\ now = gameStartTimestamp + gameDuration

\* C9: once the game is ENDED, or ACTIVE with the deadline passed,
\* finalizeRanks succeeds for every caller.
C9_FinalizeSucceeds ==
    (/\ tx.op = "finalizeRanks"
     /\ \/ gameState = "ENDED"
        \/ gameState = "ACTIVE" /\ now > gameStartTimestamp + gameDuration)
    => tx.result = OK

\* C10: after a successful finalizeRanks any two roster players with the same
\* score, puzzleIndex and lastSolveTime have the same finalRank.
C10_TiedShareRank ==
    (tx.op = "finalizeRanks" /\ tx.result = OK) =>
        \A i, j \in 1..Len(allPlayers) :
            LET p == allPlayers[i]
                q == allPlayers[j] IN
            (/\ playerStats[p].score = playerStats[q].score
             /\ playerStats[p].puzzleIndex = playerStats[q].puzzleIndex
             /\ playerStats[p].lastSolveTime = playerStats[q].lastSolveTime)
            => finalRank[p] = finalRank[q]

\* ranks were assigned to a roster of three whose first and last players are
\* tied behind the second one
C10_Witness ==
    /\ tx.op = "finalizeRanks" /\ tx.result = OK
    /\ Len(allPlayers) = 3
    /\ playerStats[allPlayers[1]].score = playerStats[allPlayers[3]].score
    /\ playerStats[allPlayers[1]].puzzleIndex = playerStats[allPlayers[3]].puzzleIndex
    /\ playerStats[allPlayers[1]].lastSolveTime = playerStats[allPlayers[3]].lastSolveTime
    /\ playerStats[allPlayers[2]].score > playerStats[allPlayers[1]].score
    /\ finalRank[allPlayers[2]] = 1
    /\ finalRank[allPlayers[1]] = 2
    /\ finalRank[allPlayers[3]] = 2

\* a is ahead of b: higher score, then higher puzzleIndex, then earlier
\* lastSolveTime
Ahead(a, b) ==
    \/ playerStats[a].score > playerStats[b].score
    \/ /\ playerStats[a].score = playerStats[b].score
       /\ playerStats[a].puzzleIndex > playerStats[b].puzzleIndex
    \/ /\ playerStats[a].score = playerStats[b].score
       /\ playerStats[a].puzzleIndex = playerStats[b].puzzleIndex
       /\ playerStats[a].lastSolveTime < playerStats[b].lastSolveTime
Finalized(t) == t.op = "finalizeRanks" /\ t.result = OK
Roster == {allPlayers[i] : i \in 1..Len(allPlayers)}

\* C11: after a successful finalizeRanks every roster player's finalRank is
\* 1 + the number of roster players that are strictly better (competition
\* ranking: the best player has rank 1, ranks may have gaps).
C11_CompetitionRanks ==
    Finalized(tx) =>
        /\ \E p \in Roster : finalRank[p] = 1
        /\ \A p \in Roster :
              finalRank[p] = 1 + Cardinality({q \in Roster : Ahead(q, p)})

\* two players tied at rank 1 are followed by rank 3
C11_Witness ==
    /\ Finalized(tx)
    /\ Len(allPlayers) = 3
    /\ \E p, q, r \in Roster :
          /\ p # q
          /\ finalRank[p] = 1 /\ finalRank[q] = 1 /\ finalRank[r] = 3

\* C12: after a successful finalizeRanks a roster player with the higher
\* score, or the same score and the higher puzzleIndex, or the same score and
\* puzzleIndex and the earlier lastSolveTime has the smaller finalRank; two
\* players with the same score and puzzleIndex share a rank only if their
\* lastSolveTime is the same too.
C12_BetterRanksFirst ==
    Finalized(tx) =>
        \A a, b \in Roster :
            /\ Ahead(a, b) => finalRank[a] < finalRank[b]
            /\ (/\ playerStats[a].score = playerStats[b].score
                /\ playerStats[a].puzzleIndex = playerStats[b].puzzleIndex
                /\ finalRank[a] = finalRank[b])
               => playerStats[a].lastSolveTime = playerStats[b].lastSolveTime

\* the player appended first solved the same puzzle for the same points
\* later than the player appended second, and is ranked behind
C12_Witness ==
    /\ Finalized(tx)
    /\ Len(allPlayers) = 2
    /\ playerStats[allPlayers[1]].score = playerStats[allPlayers[2]].score
    /\ playerStats[allPlayers[1]].puzzleIndex = playerStats[allPlayers[2]].puzzleIndex
    /\ playerStats[allPlayers[1]].lastSolveTime > playerStats[allPlayers[2]].lastSolveTime
    /\ playerStats[allPlayers[2]].lastSolveTime > 0
    /\ finalRank[allPlayers[1]] = 2
    /\ finalRank[allPlayers[2]] = 1

Claimed(t) == t.op = "claimNFT"
Ranked == \E p \in Accounts : finalRank[p] # 0

\* C13: a rank that has been assigned never changes its value, and a
\* finalizeRanks that succeeds after ranks have been assigned leaves the
\* whole finalRank mapping as it was.
C13_RanksStable ==
    [][/\ \A p \in Accounts : finalRank[p] # 0 => finalRank'[p] = finalRank[p]
       /\ (Finalized(tx') /\ Ranked) => finalRank' = finalRank]_vars

\* finalizeRanks succeeded again after a ranked player had claimed, on a
\* roster of at least two
C13_Witness ==
    /\ Finalized(tx)
    /\ Len(allPlayers) >= 2
    /\ \E p \in Roster : playerStats[p].claimedNFT

\* C14: a player's claimedNFT flag is set only by that player's successful
\* claimNFT and is never cleared; a successful claimNFT finds the flag clear
\* and mints exactly one token, the next identifier, to the caller; a
\* claimNFT by a player whose flag is set fails with "Already claimed NFT"
\* and changes nothing.
C14_ClaimOnce ==
    [][/\ \A p \in Accounts :
             /\ playerStats[p].claimedNFT => playerStats'[p].claimedNFT
             /\ (~playerStats[p].claimedNFT /\ playerStats'[p].claimedNFT) =>
                    (Claimed(tx') /\ tx'.result = OK /\ tx'.caller = p)
       /\ (Claimed(tx') /\ tx'.result = OK) =>
             /\ ~playerStats[tx'.caller].claimedNFT
             /\ playerStats'[tx'.caller].claimedNFT
             /\ tokenIds' = tokenIds + 1
             /\ Len(tokenOwner') = Len(tokenOwner) + 1
             /\ tokenOwner'[tokenIds'] = tx'.caller
             /\ \A i \in 1..Len(tokenOwner) : tokenOwner'[i] = tokenOwner[i]
       /\ (Claimed(tx') /\ playerStats[tx'.caller].claimedNFT) =>
             /\ tx'.result = AlreadyClaimed
             /\ UNCHANGED storage]_vars

\* a player claimed a second time after two players had claimed
C14_Witness ==
    /\ Claimed(tx) /\ tx.result = AlreadyClaimed
    /\ playerStats[tx.caller].claimedNFT
    /\ tokenIds = 2

\* C15: once the game is ENDED, or ACTIVE with the deadline passed, a
\* claimNFT by a caller whose finalRank is 0 fails with "Rank not assigned
\* yet. finalizeRanks first." and changes nothing.
C15_UnrankedRejected ==
    [][(/\ Claimed(tx')
        /\ \/ gameState = "ENDED"
           \/ gameState = "ACTIVE" /\ now > gameStartTimestamp + gameDuration
        /\ finalRank[tx'.caller] = 0) =>
          /\ tx'.result = NoRank
          /\ UNCHANGED storage]_vars

\* after ranks had been assigned, an account that never had an attestation
\* applied tried to claim
C15_Witness ==
    /\ Claimed(tx) /\ tx.result = NoRank
    /\ gameState = "ENDED"
    /\ Ranked
    /\ tx.caller \notin Roster
    /\ playerStats[tx.caller] = NoStats

\* C16: while the game is NOT_STARTED, or ACTIVE with now <= start +
\* duration, every claimNFT fails with "Game not ended yet" and changes
\* nothing.
C16_ClaimBeforeEnd ==
    [][(/\ Claimed(tx')
        /\ \/ gameState = "NOT_STARTED"
           \/ gameState = "ACTIVE" /\ now <= gameStartTimestamp + gameDuration) =>
          /\ tx'.result = NotEnded
          /\ UNCHANGED storage]_vars

\* C17: finalRank changes only in a successful finalizeRanks, and while the
\* game is NOT_STARTED, or ACTIVE with now <= start + duration, every
\* finalRank is 0 and a finalizeRanks call assigns nothing.
C17_RanksOnlyAfterEnd ==
    [][/\ finalRank' # finalRank => Finalized(tx')
       /\ (\/ gameState = "NOT_STARTED"
           \/ gameState = "ACTIVE" /\ now <= gameStartTimestamp + gameDuration) =>
             /\ \A p \in Accounts : finalRank[p] = 0
             /\ tx'.op = "finalizeRanks" =>
                   (tx'.result # OK /\ finalRank' = finalRank)]_vars

\* finalizeRanks was called inside the window with players on the roster
C17_Witness ==
    /\ tx.op = "finalizeRanks" /\ tx.result = NotEnded
    /\ inWindow
    /\ Len(allPlayers) >= 1
    /\ \A p \in Accounts : finalRank[p] = 0

\* C18: a state that lets a submitResult past its lifecycle gate lets no
\* finalizeRanks and no claimNFT past theirs, and the other way round; a
\* successful finalizeRanks or claimNFT leaves ranks assigned, and once ranks
\* are assigned no submitResult is accepted and the roster and every
\* player's score, puzzleIndex and lastSolveTime stay as they are.
C18_WindowsDisjoint ==
    [][/\ (Submitted(tx') /\ tx'.result \notin {NotActive, TimeUp}) =>
             /\ finalizeRanksError = NotEnded
             /\ \A c \in Accounts : claimNFTError(c) = NotEnded
       /\ ((Claimed(tx') \/ tx'.op = "finalizeRanks") /\ tx'.result # NotEnded) =>
             onlyWhenActive # OK
       /\ ((Claimed(tx') \/ tx'.op = "finalizeRanks") /\ tx'.result = OK) => Ranked'
       /\ Ranked =>
             /\ ~Accepted(tx')
             /\ allPlayers' = allPlayers
             /\ \A p \in Accounts :
                   /\ playerStats'[p].score = playerStats[p].score
                   /\ playerStats'[p].puzzleIndex = playerStats[p].puzzleIndex
                   /\ playerStats'[p].lastSolveTime = playerStats[p].lastSolveTime]_vars

\* after ranks had been assigned in a game that was never ended by the
\* owner, the relay presented a judge-signed attestation for a player's
\* current, active puzzle
C18_Witness ==
    /\ Submitted(tx) /\ tx.result = TimeUp
    /\ Ranked
    /\ tx.caller = avsAddress
    /\ JudgeSigned(tx)
    /\ tx.n = playerStats[tx.a].puzzleIndex
    /\ puzzles[tx.n].active

\* C20: a player is on the roster exactly when its isActivePlayer flag is
\* set and is there once; the roster only grows at its end, and only by an
\* accepted submitResult, correct or not, for a player not yet on it.
C20_RosterAppendOnly ==
    [][/\ \A p \in Accounts : InRoster(p) <=> playerStats[p].isActivePlayer
       /\ \A i, j \in 1..Len(allPlayers) : allPlayers[i] = allPlayers[j] => i = j
       /\ Len(allPlayers') >= Len(allPlayers)
       /\ \A i \in 1..Len(allPlayers) : allPlayers'[i] = allPlayers[i]
       /\ allPlayers' # allPlayers => Accepted(tx')
       /\ Accepted(tx') =>
             allPlayers' = IF InRoster(tx'.a) THEN allPlayers
                                              ELSE Append(allPlayers, tx'.a)]_vars

\* the third accepted attestation, for a player already on a roster of two
\* whose other player was appended by an incorrect attestation
C20_Witness ==
    /\ Accepted(tx)
    /\ submissions = 3
    /\ Len(allPlayers) = 2
    /\ playerStats[tx.a].puzzleIndex >= 1
    /\ \E q \in Roster : q # tx.a /\ playerStats[q].puzzleIndex = 0

Claimants == {p \in Accounts : playerStats[p].claimedNFT}

\* C19 (as stated): the token counter equals the number of players that
\* have claimed, identifiers are handed out 1, 2, 3, ... in claim order, a
\* rejected claim consumes none, and every minted identifier is owned by the
\* player whose claim minted it, after any sequence of calls.
C19_TokensStayWithClaimant ==
    [][/\ tokenIds = Cardinality(Claimants)
       /\ Len(tokenOwner) = tokenIds
       /\ (Claimed(tx') /\ tx'.result = OK) =>
             /\ tokenIds' = tokenIds + 1
             /\ tokenOwner'[tokenIds'] = tx'.caller
       /\ (Claimed(tx') /\ tx'.result # OK) => UNCHANGED tokens
       /\ \A i \in 1..Len(tokenOwner) : tokenOwner'[i] = tokenOwner[i]]_vars

\* C19 (amended): the token counter equals the number of players that have
\* claimed and only a successful claimNFT changes it, by one; identifiers
\* 1..counter and no others have an owner, never the zero address; the
\* identifier a claim mints is counter + 1 and is owned by the caller when
\* the claim returns; a rejected claim changes neither counter nor owners.
C19_TokenIdsSequential ==
    [][/\ tokenIds = Cardinality(Claimants)
       /\ Len(tokenOwner) = tokenIds
       /\ \A i \in 1..Len(tokenOwner) : tokenOwner[i] # Zero
       /\ tokenIds' # tokenIds => (Claimed(tx') /\ tx'.result = OK)
       /\ (Claimed(tx') /\ tx'.result = OK) =>
             /\ tokenIds' = tokenIds + 1
             /\ tokenOwner'[tokenIds'] = tx'.caller
             /\ \A i \in 1..Len(tokenOwner) : tokenOwner'[i] = tokenOwner[i]
       /\ (Claimed(tx') /\ tx'.result # OK) => UNCHANGED tokens]_vars

\* the second claim minted identifier 2 to its caller while identifier 1,
\* minted to another player, had been handed on to that caller
C19_Witness ==
    /\ Claimed(tx) /\ tx.result = OK
    /\ tokenIds = 2
    /\ tokenOwner = <<tx.caller, tx.caller>>
    /\ Cardinality(Claimants) = 2

\* C21: every step changes a player's puzzleIndex by 0 or by +1, and by +1
\* exactly when the step is an accepted submitResult with correct = true for
\* that player.
C21_IndexSteps ==
    [][\A p \in Accounts :
          /\ playerStats'[p].puzzleIndex \in
                {playerStats[p].puzzleIndex, playerStats[p].puzzleIndex + 1}
          /\ playerStats'[p].puzzleIndex = playerStats[p].puzzleIndex + 1
                <=> (Accepted(tx') /\ tx'.b /\ tx'.a = p)]_vars

\* the third accepted attestation solved a player's second puzzle; the
\* remaining one was incorrect
C21_Witness ==
    /\ Accepted(tx) /\ tx.b
    /\ submissions = 3
    /\ playerStats[tx.a].puzzleIndex = 2
    /\ \A q \in Accounts \ {tx.a} : playerStats[q].puzzleIndex = 0

SetPuzzle(t) == t.op = "setPuzzleHash"
AdminOps == {"startGame", "endGame", "setAvsAddress", "setAvsSigner", "setPuzzleCreator"}

\* C22: a setPuzzleHash is accepted exactly when its caller holds the creator
\* role at the time of the call or is the owner; a rejected one leaves the
\* puzzle table and puzzleCount unchanged; an account whose role the owner
\* revokes does not hold it afterwards.
C22_CreatorOrOwner ==
    [][/\ SetPuzzle(tx') =>
             /\ tx'.result = OK <=> (tx'.caller \in puzzleCreators \/ tx'.caller = Owner)
             /\ tx'.result # OK => UNCHANGED registry
       /\ (tx'.op = "setPuzzleCreator" /\ tx'.result = OK) =>
             (tx'.a \in puzzleCreators' <=> tx'.b)]_vars

\* an account without the creator role was rejected although a puzzle with
\* basePoints 10 is registered and the owner holds no creator role either
C22_Witness ==
    /\ SetPuzzle(tx) /\ tx.result = NotCreator
    /\ tx.caller \in world.creators
    /\ tx.caller \notin puzzleCreators
    /\ Owner \notin puzzleCreators
    /\ puzzles[0].active /\ puzzles[0].basePoints = 10

C24_AdminOwnerOnly ==
    [][tx'.op \in AdminOps =>
          /\ tx'.caller # Owner =>
                /\ tx'.result = NotOwner
                /\ UNCHANGED <<roles, lifecycle>>
          /\ tx'.result = OK => tx'.caller = Owner]_vars

\* the configured relay, which also holds the creator role, tried to end a
\* running game
C24_Witness ==
    /\ tx.op = "endGame" /\ tx.result = NotOwner
    /\ tx.caller = avsAddress
    /\ tx.caller \in puzzleCreators
    /\ gameState = "ACTIVE"

\* C25: an accepted setPuzzleHash(id, hash, basePoints) leaves puzzle id as
\* {hash, basePoints, active}, puzzleCount as max(puzzleCount, id + 1), and
\* changes no other puzzle and no player; a creator's or the owner's call is
\* accepted in every lifecycle state and for every id; an accepted correct
\* attestation awards the basePoints the puzzle has when it is applied.
C25_PuzzleOverwrite ==
    [][/\ (SetPuzzle(tx') /\ tx'.result = OK) =>
             /\ puzzles'[tx'.n] = [puzzleHash |-> SomeHash, basePoints |-> tx'.v,
                                   active |-> TRUE]
             /\ puzzleCount' = IF puzzleCount > tx'.n + 1 THEN puzzleCount
                                                          ELSE tx'.n + 1
             /\ \A i \in PuzzleIds \ {tx'.n} : puzzles'[i] = puzzles[i]
             /\ UNCHANGED players
       /\ (SetPuzzle(tx') /\ (tx'.caller = Owner \/ tx'.caller \in puzzleCreators)) =>
             tx'.result = OK
       /\ (Accepted(tx') /\ tx'.b) =>
             playerStats'[tx'.a].score =
                playerStats[tx'.a].score + puzzles[tx'.n].basePoints + (tx'.v \div 60)]_vars

\* puzzle 0, which the player solved for 1 + 1 points, was overwritten with
\* basePoints 10 in the running game while puzzle 1 is registered
C25_Witness ==
    /\ SetPuzzle(tx) /\ tx.result = OK
    /\ tx.n = 0 /\ tx.v = 10
    /\ puzzles[0].basePoints = 10
    /\ gameState = "ACTIVE"
    /\ puzzleCount = 2
    /\ \E p \in Accounts : playerStats[p].puzzleIndex = 1 /\ playerStats[p].score = 2

\* C26: every puzzle index below puzzleCount refers to a puzzle that has been
\* set and is active.
C26_RegistryDense ==
    \A i \in PuzzleIds : i < puzzleCount => puzzles[i].active

\* the puzzle a player owes has been set
OwedPuzzleSet(p) ==
    /\ playerStats[p].puzzleIndex \in PuzzleIds
    /\ puzzles[playerStats[p].puzzleIndex].active

\* C30: every player's puzzleIndex is at most puzzleCount, and while the
\* puzzle at a player's puzzleIndex has not been set no submitResult for
\* that player, correct or incorrect, is accepted.
C30_IndexWithinRegistry ==
    [][/\ \A p \in Accounts : playerStats[p].puzzleIndex <= puzzleCount
       /\ \A p \in Accounts :
             (Submitted(tx') /\ tx'.a = p /\ ~OwedPuzzleSet(p)) =>
                 /\ tx'.result # OK
                 /\ playerStats'[p] = playerStats[p]]_vars

\* the relay presented the judge's attestation for the puzzle the player
\* owes, which was never set: the player has solved the only puzzle there is
C30_Witness ==
    /\ Submitted(tx) /\ tx.result = PuzzleInactive
    /\ tx.n = 1
    /\ playerStats[tx.a].puzzleIndex = 1
    /\ puzzleCount = 1
    /\ ~puzzles[1].active

\* C27: an accepted setAvsSigner makes its argument the judge key and an
\* accepted setAvsAddress makes its argument the relay, each leaving the
\* other, the creator roles and all players as they were; from the state the
\* change leaves behind, no submitResult with a signature of the replaced key
\* or from the replaced relay would be accepted; every accepted submitResult
\* comes from the relay and carries the signature of the judge key
\* configured at the time of the call, and the relay's call with that key's
\* signature for the player's current, active puzzle inside the window is
\* accepted.
C27_CurrentRelayAndKey ==
    [][/\ (tx'.op = "setAvsSigner" /\ tx'.result = OK) =>
             /\ avsSigner' = tx'.a
             /\ UNCHANGED <<avsAddress, puzzleCreators, players>>
             /\ \A old \in world.keys :
                   (old = avsSigner /\ old # avsSigner') =>
                      \A c \in world.submitters, p \in world.players,
                         i \in world.puzzleIds, ok \in BOOLEAN,
                         tr \in world.timeRemaining :
                         submitResultError(c, p, i, ok, tr,
                             Sign(old, messageHash(This, p, i, ok, tr)))' # OK
       /\ (tx'.op = "setAvsAddress" /\ tx'.result = OK) =>
             /\ avsAddress' = tx'.a
             /\ UNCHANGED <<avsSigner, puzzleCreators, players>>
             /\ \A old \in world.relays :
                   (old = avsAddress /\ old # avsAddress') =>
                      \A p \in world.players, i \in world.puzzleIds,
                         ok \in BOOLEAN, tr \in world.timeRemaining :
                         \A sig \in SignatureChoices(p, i, ok, tr) :
                            submitResultError(old, p, i, ok, tr, sig)' # OK
       /\ Accepted(tx') =>
             /\ tx'.caller = avsAddress
             /\ tx'.signature.signer = avsSigner
       /\ (/\ Submitted(tx') /\ inWindow
           /\ tx'.caller = avsAddress
           /\ JudgeSigned(tx')
           /\ tx'.n = playerStats[tx'.a].puzzleIndex
           /\ puzzles[tx'.n].active) => tx'.result = OK]_vars

\* with an attestation already applied, the relay presented a signature of
\* the first judge key for the player's current, active puzzle while the
\* second key is configured
C27_Witness ==
    /\ Submitted(tx) /\ tx.result = BadSig
    /\ inWindow
    /\ tx.caller = avsAddress
    /\ submissions >= 1
    /\ avsSigner = JudgeB
    /\ tx.signature = Sign(JudgeA, messageHash(This, tx.a, tx.n, tx.b, tx.v))
    /\ tx.n = playerStats[tx.a].puzzleIndex
    /\ puzzles[tx.n].active

Tied(a, b) ==
    /\ playerStats[a].score = playerStats[b].score
    /\ playerStats[a].puzzleIndex = playerStats[b].puzzleIndex
    /\ playerStats[a].lastSolveTime = playerStats[b].lastSolveTime

\* C28: the order the exchange sort of a successful finalizeRanks produces
\* (finalizeRanks changes neither roster nor stats, so the state it leaves
\* behind shows its input) is a
\* permutation of the roster without inversion (no player is ahead of one
\* placed before it), so players with identical score, puzzleIndex and
\* lastSolveTime are next to each other.
C28_SortedNoInversion ==
    Finalized(tx) =>
        \A s \in {sortedPlayers} :
            /\ Len(s) = Len(allPlayers)
            /\ \A p \in Accounts :
                  Cardinality({i \in 1..Len(s) : s[i] = p}) =
                  Cardinality({i \in 1..Len(allPlayers) : allPlayers[i] = p})
            /\ \A i, j \in 1..Len(s) : i < j => ~Ahead(s[j], s[i])
            /\ \A i, j \in 1..Len(s) :
                  (i < j /\ Tied(s[i], s[j])) => \A k \in i..j : Tied(s[i], s[k])

\* ranks were assigned to a roster of three that was appended in exactly
\* the reverse of its final order
C28_Witness ==
    /\ Finalized(tx)
    /\ Len(allPlayers) = 3
    /\ Ahead(allPlayers[3], allPlayers[2])
    /\ Ahead(allPlayers[2], allPlayers[1])
    /\ sortedPlayers = <<allPlayers[3], allPlayers[2], allPlayers[1]>>
    /\ finalRank[allPlayers[3]] = 1
    /\ finalRank[allPlayers[1]] = 3

\* C29: a claimNFT issued by the claimant from inside the receiver callback
\* of its own claimNFT fails with "Already claimed NFT", and the outer call
\* then mints one token; no claimNFT, nested calls included, raises the token
\* counter by more than one; when the callback rejects the token the call
\* fails and claimedNFT and the token counter are as before the call.
C29_NoReentrantClaim ==
    [][Claimed(tx') =>
          /\ tokenIds' <= tokenIds + 1
          /\ Len(tokenOwner') = tokenIds'
          /\ tx'.inner \in {NoCall, AlreadyClaimed}
          /\ (tx'.hook = Reenters /\ ~playerStats[tx'.caller].claimedNFT
                  /\ playerStats'[tx'.caller].claimedNFT) =>
                /\ tx'.inner = AlreadyClaimed
                /\ tx'.result = OK
                /\ tokenIds' = tokenIds + 1
          /\ tx'.hook = Rejects =>
                /\ tx'.result # OK
                /\ playerStats'[tx'.caller].claimedNFT = playerStats[tx'.caller].claimedNFT
                /\ UNCHANGED storage
          /\ (tx'.hook = Rejects /\ finalRank[tx'.caller] > 0
                  /\ ~playerStats[tx'.caller].claimedNFT) =>
                /\ tx'.result = NotReceiver
                /\ ~playerStats'[tx'.caller].claimedNFT]_vars

\* a ranked contract claimed and claimed again from inside the callback: it
\* holds one token
C29_Witness ==
    /\ Claimed(tx) /\ tx.result = OK
    /\ tx.hook = Reenters
    /\ tx.inner = AlreadyClaimed
    /\ playerStats[tx.caller].claimedNFT
    /\ tokenIds = 1
    /\ tokenOwner = <<tx.caller>>

\* C31 (as stated): an account with a rank is on the roster and its rank is
\* at most the roster length, an account that has claimed has a rank, and so
\* only accounts on the roster ever hold a rank or a reward token.
C31_OnlyRosterHoldsTokens ==
    /\ \A p \in Accounts :
          /\ finalRank[p] > 0 => (InRoster(p) /\ finalRank[p] <= Len(allPlayers))
          /\ playerStats[p].claimedNFT => finalRank[p] > 0
    /\ \A i \in 1..Len(tokenOwner) : InRoster(tokenOwner[i])

\* C31 (amended): an account with a rank is on the roster and its rank is at
\* most the roster length, an account that has claimed has a rank, and a
\* reward token is minted only to a ranked account on the roster.
C31_OnlyRosterRankedOrMinted ==
    [][/\ \A p \in Accounts :
             /\ finalRank[p] > 0 => (InRoster(p) /\ finalRank[p] <= Len(allPlayers))
             /\ playerStats[p].claimedNFT => finalRank[p] > 0
       /\ \A i \in 1..Len(tokenOwner') :
             i > Len(tokenOwner) =>
                /\ InRoster(tokenOwner'[i])
                /\ finalRank[tokenOwner'[i]] > 0
                /\ tokenOwner'[i] = tx'.caller]_vars

\* a player with nothing but incorrect attestations, score 0, claimed the
\* token for the last rank of a roster of two
C31_Witness ==
    /\ Claimed(tx) /\ tx.result = OK
    /\ Len(allPlayers) = 2
    /\ playerStats[tx.caller].score = 0
    /\ playerStats[tx.caller].puzzleIndex = 0
    /\ playerStats[tx.caller].lastSolveTime = 0
    /\ finalRank[tx.caller] = 2
    /\ tokenOwner[tokenIds] = tx.caller

====
